---- MODULE Spec2Model ----
(***************************************************************************)
(* A model of clean_data.py: the city canonicalization engine              *)
(* (build_city_canon / clean_city) and the email, phone and date           *)
(* normalizers.                                                            *)
(*                                                                         *)
(* A Python str is a sequence of one-character strings.  Two characters    *)
(* outside ASCII are written as two-letter tokens: "i'" is U+00ED (i with  *)
(* acute), "I'" is U+00CD, and "'" alone is U+0301 (the combining acute    *)
(* that NFKD produces); "A~" is U+00C3, "fh" is U+0192 and "lq" is U+201A, *)
(* the characters of the two mojibake markers.  A cell of a pandas Series  *)
(* is a record                                                             *)
(* [kind, v]: kind "str" carries the string v, kind "nan" is the float     *)
(* NaN read_csv produces for an empty field, kind "NA" is pd.NA.           *)
(* Series.astype(str) is that of pandas 1.x and 2.x, the versions that     *)
(* accept the infer_datetime_format argument the module passes: it turns   *)
(* NaN into "nan" and pd.NA into "<NA>".                                   *)
(***************************************************************************)
EXTENDS Integers, Sequences, FiniteSets, TLC

VARIABLES
    pc,        \* position of the running function
    series,    \* city: the column given to clean_city
    tmp,       \* city: the frame of (raw, basic, sig) rows
    groups,    \* city: dict sig -> list of raw values, in insertion order
    sig_to_disp, \* city: dict sig -> representative, as a function
    ordered,   \* city: signatures by descending size (stable)
    merged,    \* city: dict small -> anchor, as a function
    k,         \* city: index into ordered of the next `small` (reverse walk)
    mapping,   \* city: dict raw -> canonical display string
    out,       \* city: the column clean_city returns
    pass,      \* city: 1 for the first application, 2 for the second
    emails,    \* email: the column given to clean_email
    t,         \* email: the normalized strings (local t of clean_email)
    eout,      \* email: the column clean_email returns
    phone,     \* phone: the raw phone cell
    country,   \* phone: str(cntry) of the country cell
    p,         \* phone: the normalized string (local p of clean_phone)
    cleaned,   \* phone: fmt's result
    pout,      \* phone: the cell clean_phone returns
    x,         \* date: the cell given to parse_one
    dt,        \* date: to_datetime's result of the current attempt
    tried,     \* date: the dayfirst values tried so far, in order
    parsed,    \* date: what parse_one returns
    dout       \* date: the cell clean_date_iso returns

vars == <<pc, series, tmp, groups, sig_to_disp, ordered, merged, k, mapping, out,
          pass, emails, t, eout, phone, country, p, cleaned, pout,
          x, dt, tried, parsed, dout>>

cityVars == <<series, tmp, groups, sig_to_disp, ordered, merged, k, mapping, out, pass>>
emailVars == <<emails, t, eout>>
phoneVars == <<phone, country, p, cleaned, pout>>
dateVars == <<x, dt, tried, parsed, dout>>

(***************************************************************************)
(* Characters and Python's str methods                                     *)
(***************************************************************************)
LowerSeq == <<"a","b","c","d","e","f","g","h","i","j","k","l","m",
              "n","o","p","q","r","s","t","u","v","w","x","y","z">>
UpperSeq == <<"A","B","C","D","E","F","G","H","I","J","K","L","M",
              "N","O","P","Q","R","S","T","U","V","W","X","Y","Z">>
AsciiLower == {LowerSeq[i] : i \in 1..26}
AsciiUpper == {UpperSeq[i] : i \in 1..26}
Digits == {"0","1","2","3","4","5","6","7","8","9"}
Whitespace == {" "}

Ord(c) == CHOOSE i \in 1..26 : LowerSeq[i] = c

\* The characters of s that are in cls, and those that are not, in order.
RECURSIVE KeepIn(_, _)
KeepIn(s, cls) ==
    IF s = <<>> THEN <<>>
    ELSE (IF Head(s) \in cls THEN <<Head(s)>> ELSE <<>>) \o KeepIn(Tail(s), cls)
RECURSIVE DropIn(_, _)
DropIn(s, cls) ==
    IF s = <<>> THEN <<>>
    ELSE (IF Head(s) \in cls THEN <<>> ELSE <<Head(s)>>) \o DropIn(Tail(s), cls)

RECURSIVE Concat(_)
Concat(ss) == IF ss = <<>> THEN <<>> ELSE Head(ss) \o Concat(Tail(ss))

Contains(s, c) == \E i \in 1..Len(s) : s[i] = c

HasSub(s, sub) ==
    \E i \in 1..(Len(s) - Len(sub) + 1) : SubSeq(s, i, i + Len(sub) - 1) = sub

StartsWith(s, pre) == Len(s) >= Len(pre) /\ SubSeq(s, 1, Len(pre)) = pre
EndsWith(s, suf) ==
    Len(s) >= Len(suf) /\ SubSeq(s, Len(s) - Len(suf) + 1, Len(s)) = suf

\* str.lower() on one character.
LowerChar(c) ==
    IF c \in AsciiUpper THEN LowerSeq[CHOOSE i \in 1..26 : UpperSeq[i] = c]
    ELSE IF c = "I'" THEN "i'" ELSE c

\* str.upper() on one character.
UpperChar(c) ==
    IF c \in AsciiLower THEN UpperSeq[CHOOSE i \in 1..26 : LowerSeq[i] = c]
    ELSE IF c = "i'" THEN "I'" ELSE c

IsCased(c) == c \in AsciiLower \cup AsciiUpper \cup {"i'", "I'"}

Lower(s) == [i \in 1..Len(s) |-> LowerChar(s[i])]

\* str.title(): a cased character is upper-cased when the previous character
\* is not cased and lower-cased when it is.
Title(s) ==
    [i \in 1..Len(s) |->
        IF ~IsCased(s[i]) THEN s[i]
        ELSE IF i > 1 /\ IsCased(s[i-1]) THEN LowerChar(s[i])
        ELSE UpperChar(s[i])]

\* str.strip()
RECURSIVE LStrip(_)
LStrip(s) == IF s # <<>> /\ Head(s) \in Whitespace THEN LStrip(Tail(s)) ELSE s
RECURSIVE RStrip(_)
RStrip(s) ==
    IF s # <<>> /\ s[Len(s)] \in Whitespace THEN RStrip(SubSeq(s, 1, Len(s) - 1))
    ELSE s
Strip(s) == RStrip(LStrip(s))

\* re.sub(r"[cls]{minRun,}", " ", s): every maximal run of at least minRun
\* characters of cls becomes one space; shorter runs stay.
RECURSIVE RunLen(_, _, _)
RunLen(s, i, cls) ==
    IF i <= Len(s) /\ s[i] \in cls THEN 1 + RunLen(s, i + 1, cls) ELSE 0
RECURSIVE SubRuns(_, _, _, _)
SubRuns(s, i, cls, minRun) ==
    IF i > Len(s) THEN <<>>
    ELSE LET n == RunLen(s, i, cls)
         IN IF n >= minRun THEN <<" ">> \o SubRuns(s, i + n, cls, minRun)
            ELSE <<s[i]>> \o SubRuns(s, i + 1, cls, minRun)

\* re.sub(r"\s{2,}", " ", s)
CollapseSpaces(s) == SubRuns(s, 1, Whitespace, 2)

\* pandas cell constructors
StrCell(s) == [kind |-> "str", v |-> s]
NaN == [kind |-> "nan", v |-> <<>>]
NA == [kind |-> "NA", v |-> <<>>]

\* Series.astype(str) on one cell: str(nan) is "nan", str(pd.NA) is "<NA>".
AsTypeStr(c) ==
    IF c.kind = "str" THEN c.v
    ELSE IF c.kind = "nan" THEN <<"n","a","n">>
    ELSE <<"<","N","A",">">>

\* Series.fillna("") on one cell.
FillNaEmpty(c) == IF c.kind = "str" THEN c ELSE StrCell(<<>>)

\* maybe_demojibake: the two markers each contain a character outside
\* latin-1 ("fh" is U+0192, "lq" is U+201A), so whenever a marker is present
\* encode("latin-1") raises and the except branch returns x.
maybe_demojibake(s) ==
    IF HasSub(s, <<"A~", "fh">>) \/ HasSub(s, <<"A~", "lq">>)
    THEN s      \* encode raises UnicodeEncodeError: return x
    ELSE s

\* strip_accents: NFKD, then drop the combining characters.
NFKD(c) == IF c = "i'" THEN <<"i", "'">> ELSE IF c = "I'" THEN <<"I", "'">> ELSE <<c>>
Combining == {"'"}
strip_accents(s) ==
    DropIn(Concat([i \in 1..Len(s) |-> NFKD(s[i])]), Combining)

(***************************************************************************)
(* difflib.SequenceMatcher and difflib.get_close_matches (no junk: autojunk *)
(* only applies to sequences of 200 or more elements)                      *)
(***************************************************************************)
RECURSIVE MatchLen(_, _, _, _, _, _)
MatchLen(a, b, i, j, ahi, bhi) ==
    IF i <= ahi /\ j <= bhi /\ a[i] = b[j]
    THEN 1 + MatchLen(a, b, i + 1, j + 1, ahi, bhi)
    ELSE 0

\* find_longest_match: the longest block a[i..i+size-1] = b[j..j+size-1]
\* within a[alo..ahi], b[blo..bhi]; of the longest, the one that starts
\* earliest in a, and of those the one that starts earliest in b.
find_longest_match(a, b, alo, ahi, blo, bhi) ==
    LET blocks == {[i |-> i, j |-> j, size |-> MatchLen(a, b, i, j, ahi, bhi)] :
                      i \in alo..ahi, j \in blo..bhi}
        best == CHOOSE m \in blocks :
                    \A o \in blocks :
                        \/ o.size < m.size
                        \/ o.size = m.size /\ (m.i < o.i \/ (m.i = o.i /\ m.j <= o.j))
    IN best

\* The total size of get_matching_blocks(): the longest match, then the
\* same on the pieces to its left and to its right.
RECURSIVE Matches(_, _, _, _, _, _)
Matches(a, b, alo, ahi, blo, bhi) ==
    IF alo > ahi \/ blo > bhi THEN 0
    ELSE LET m == find_longest_match(a, b, alo, ahi, blo, bhi)
         IN IF m.size = 0 THEN 0
            ELSE m.size
                 + Matches(a, b, alo, m.i - 1, blo, m.j - 1)
                 + Matches(a, b, m.i + m.size, ahi, m.j + m.size, bhi)

\* _calculate_ratio(matches, length) as a fraction: 2.0*matches/length, and
\* 1.0 when length is 0.
calculate_ratio(matches, length) ==
    IF length > 0 THEN [num |-> 2 * matches, den |-> length]
    ELSE [num |-> 1, den |-> 1]

ratio(a, b) ==
    calculate_ratio(Matches(a, b, 1, Len(a), 1, Len(b)), Len(a) + Len(b))

Min(m, n) == IF m <= n THEN m ELSE n

real_quick_ratio(a, b) ==
    calculate_ratio(Min(Len(a), Len(b)), Len(a) + Len(b))

CountOf(s, c) == Cardinality({i \in 1..Len(s) : s[i] = c})

RECURSIVE SumOver(_, _, _)
SumOver(S, a, b) ==
    IF S = {} THEN 0
    ELSE LET c == CHOOSE e \in S : TRUE
         IN Min(CountOf(a, c), CountOf(b, c)) + SumOver(S \ {c}, a, b)

\* quick_ratio: the size of the multiset intersection of the two strings.
quick_ratio(a, b) ==
    calculate_ratio(SumOver({b[j] : j \in 1..Len(b)}, a, b), Len(a) + Len(b))

\* fuzzy_cutoff = 0.92
CutoffNum == 92
CutoffDen == 100
AtLeastCutoff(r) == r.num * CutoffDen >= CutoffNum * r.den

ScoreLess(r1, r2) == r1.num * r2.den < r2.num * r1.den

\* Python's < on two str of ASCII lower-case letters.
RECURSIVE StrLess(_, _)
StrLess(a, b) ==
    IF b = <<>> THEN FALSE
    ELSE IF a = <<>> THEN TRUE
    ELSE IF Head(a) # Head(b) THEN Ord(Head(a)) < Ord(Head(b))
    ELSE StrLess(Tail(a), Tail(b))

\* The possibilities that pass the three ratio tests, seq1 = x, seq2 = word.
CloseEnough(word, possibilities) ==
    {y \in possibilities :
        /\ AtLeastCutoff(real_quick_ratio(y, word))
        /\ AtLeastCutoff(quick_ratio(y, word))
        /\ AtLeastCutoff(ratio(y, word))}

\* heapq.nlargest(1, result) on the (score, x) tuples: the greatest score,
\* and of equal scores the greatest x.
NLargest1(word, close) ==
    CHOOSE y \in close :
        \A z \in close \ {y} :
            \/ ScoreLess(ratio(z, word), ratio(y, word))
            \/ ratio(z, word) = ratio(y, word) /\ StrLess(z, y)

\* get_close_matches(word, possibilities, n=1, cutoff=fuzzy_cutoff): the
\* empty list or the one best match.
get_close_matches(word, possibilities) ==
    LET close == CloseEnough(word, possibilities)
    IN IF close = {} THEN <<>> ELSE <<NLargest1(word, close)>>

(***************************************************************************)
(* city                                                                    *)
(***************************************************************************)
Separators == {"_", "-", ".", ",", "/"}

_basic_city_clean(s) ==
    CollapseSpaces(SubRuns(Strip(Lower(strip_accents(s))), 1, Separators, 1))

_letters_only_signature(s) == KeepIn(s, AsciiLower)

\* Counter(cands): the distinct values in insertion order, with their counts.
RECURSIVE CounterOf(_, _)
CounterOf(cands, acc) ==
    IF cands = <<>> THEN acc
    ELSE LET c == Head(cands)
         IN IF \E i \in 1..Len(acc) : acc[i].key = c
            THEN CounterOf(Tail(cands),
                     [i \in 1..Len(acc) |->
                         IF acc[i].key = c THEN [key |-> c, n |-> acc[i].n + 1]
                         ELSE acc[i]])
            ELSE CounterOf(Tail(cands), Append(acc, [key |-> c, n |-> 1]))

\* most_common(1): max(items, key=count), the first of the greatest count.
most_common1(counter) ==
    counter[CHOOSE i \in 1..Len(counter) :
                /\ \A j \in 1..Len(counter) : counter[j].n <= counter[i].n
                /\ \A j \in 1..(i - 1) : counter[j].n < counter[i].n].key

\* _choose_display_form that title-cases whatever the casing of top.
_choose_display_form_always_title(cands) ==
    Title(most_common1(CounterOf(cands, <<>>)))

_choose_display_form(cands) ==
    LET top == most_common1(CounterOf(cands, <<>>))
    IN IF \E i \in 1..Len(top) : top[i] \in AsciiUpper THEN top ELSE Title(top)

\* One row of the columns s_trim, s_basic and sigs of build_city_canon.
s_trim(c) == Strip(maybe_demojibake(AsTypeStr(FillNaEmpty(c))))
s_basic(c) == _basic_city_clean(s_trim(c))
sigs(c) == _letters_only_signature(s_basic(c))

\* tmp = pd.DataFrame({"raw": s_trim, "basic": s_basic, "sig": sigs})
TmpOf(ser) ==
    [i \in 1..Len(ser) |->
        [raw |-> s_trim(ser[i]), basic |-> s_basic(ser[i]), sig |-> sigs(ser[i])]]

\* groups.setdefault(sig, []).append(raw) over the rows with a non-empty basic.
RECURSIVE BuildGroupsFrom(_, _, _)
BuildGroupsFrom(rows, i, acc) ==
    IF i > Len(rows) THEN acc
    ELSE IF rows[i].basic = <<>> THEN BuildGroupsFrom(rows, i + 1, acc)
    ELSE LET sg == rows[i].sig
             raw == rows[i].raw
         IN IF \E g \in 1..Len(acc) : acc[g].sig = sg
            THEN BuildGroupsFrom(rows, i + 1,
                     [g \in 1..Len(acc) |->
                         IF acc[g].sig = sg
                         THEN [sig |-> sg, vals |-> Append(acc[g].vals, raw)]
                         ELSE acc[g]])
            ELSE BuildGroupsFrom(rows, i + 1,
                     Append(acc, [sig |-> sg, vals |-> <<raw>>]))

SigsOf(grp) == {grp[g].sig : g \in 1..Len(grp)}
GroupOf(grp, sg) == grp[CHOOSE g \in 1..Len(grp) : grp[g].sig = sg]
sizes(grp, sg) == Len(GroupOf(grp, sg).vals)

\* sorted(sizes, key=lambda k: sizes[k], reverse=True): descending size,
\* equal sizes in the dict's insertion order (the sort is stable).
RECURSIVE SortedBySize(_)
SortedBySize(grp) ==
    IF grp = <<>> THEN <<>>
    ELSE LET f == CHOOSE i \in 1..Len(grp) :
                      /\ \A j \in 1..Len(grp) : Len(grp[j].vals) <= Len(grp[i].vals)
                      /\ \A j \in 1..(i - 1) : Len(grp[j].vals) < Len(grp[i].vals)
             rest == [j \in 1..(Len(grp) - 1) |-> IF j < f THEN grp[j] ELSE grp[j + 1]]
         IN <<grp[f].sig>> \o SortedBySize(rest)

\* anchors without the size test.
anchors_any_size(grp, ord, small) ==
    {ord[i] : i \in {j \in 1..Len(ord) : ord[j] # small}}

anchors(grp, ord, small) ==
    {ord[i] : i \in {j \in 1..Len(ord) :
                        sizes(grp, ord[j]) >= sizes(grp, small) /\ ord[j] # small}}

\* root with `if` in place of `while`: one edge is followed at most.
root_one_step(mrg, sg, fuel) ==
    [ok |-> TRUE, sig |-> IF sg \in DOMAIN mrg THEN mrg[sg] ELSE sg]

\* root(sig): `while sig in merged: sig = merged[sig]`, followed for at most
\* fuel steps; ok is FALSE when the loop is still running after them.
RECURSIVE root(_, _, _)
root(mrg, sg, fuel) ==
    IF sg \notin DOMAIN mrg THEN [ok |-> TRUE, sig |-> sg]
    ELSE IF fuel = 0 THEN [ok |-> FALSE, sig |-> sg]
    ELSE root(mrg, mrg[sg], fuel - 1)

\* A walk that has not ended after as many steps as there are edges is in a
\* cycle and never ends.
RootOf(mrg, sg) == root(mrg, sg, Cardinality(DOMAIN mrg))

final_disp(disp, mrg, sg) == disp[RootOf(mrg, sg).sig]

(***************************************************************************)
(* The state of the components that are not running                        *)
(***************************************************************************)
CityIdle ==
    /\ series = <<>> /\ tmp = <<>> /\ groups = <<>> /\ sig_to_disp = <<>> /\ ordered = <<>>
    /\ merged = <<>> /\ k = 0 /\ mapping = <<>> /\ out = <<>> /\ pass = 1
EmailIdle == emails = <<>> /\ t = <<>> /\ eout = <<>>
PhoneIdle ==
    /\ phone = NaN /\ country = "nan" /\ p = <<>> /\ cleaned = NA /\ pout = NA
DateIdle == x = NaN /\ dt = NaN /\ tried = <<>> /\ parsed = NaN /\ dout = NaN

(***************************************************************************)
(* clean_city and build_city_canon, one column                             *)
(***************************************************************************)
MaxCityLen == 4

\* "BERLIN", " ber-l\u00edn", "Berlinn", "Erlinn", " " and a missing cell.
\* berlinn is within the cutoff of both berlin and erlinn (ratio 12/13);
\* berlin and erlinn are not within it of each other (10/12).
CityVocab ==
    { StrCell(<<"B","E","R","L","I","N">>),
      StrCell(<<" ","b","e","r","-","l","i'","n">>),
      StrCell(<<"B","e","r","l","i","n","n">>),
      StrCell(<<"E","r","l","i","n","n">>),
      StrCell(<<" ">>),
      NaN }

CityColumns == UNION {[1..n -> CityVocab] : n \in 1..MaxCityLen}

InitCity ==
    /\ pc = "start"
    /\ series \in CityColumns
    /\ tmp = <<>> /\ groups = <<>> /\ sig_to_disp = <<>> /\ ordered = <<>>
    /\ merged = <<>> /\ k = 0 /\ mapping = <<>> /\ out = <<>> /\ pass = 1
    /\ EmailIdle /\ PhoneIdle /\ DateIdle

\* build_city_canon up to the sort: the groups, their representatives and
\* the processing order.
BuildGroups ==
    /\ pc = "start"
    /\ LET rows == TmpOf(series)
           grp == BuildGroupsFrom(rows, 1, <<>>)
       IN /\ tmp' = rows
          /\ groups' = grp
          /\ sig_to_disp' = [sg \in SigsOf(grp) |->
                                _choose_display_form(GroupOf(grp, sg).vals)]
          /\ ordered' = SortedBySize(grp)
          /\ k' = Len(grp)
    /\ merged' = <<>>
    /\ pc' = "merge"
    /\ UNCHANGED <<series, mapping, out, pass, emailVars, phoneVars, dateVars>>

\* One iteration of `for small in ordered[::-1]`.
MergeStep ==
    /\ pc = "merge"
    /\ k >= 1
    /\ LET small == ordered[k]
           m == get_close_matches(small, anchors(groups, ordered, small))
       IN merged' = IF m # <<>>
                    THEN [sg \in DOMAIN merged \cup {small} |->
                             IF sg = small THEN m[1] ELSE merged[sg]]
                    ELSE merged
    /\ k' = k - 1
    /\ UNCHANGED <<pc, series, tmp, groups, sig_to_disp, ordered, mapping, out, pass,
                   emailVars, phoneVars, dateVars>>

\* The loop is over.
MergeDone ==
    /\ pc = "merge"
    /\ k = 0
    /\ pc' = "resolve"
    /\ UNCHANGED <<cityVars, emailVars, phoneVars, dateVars>>

\* final_disp and mapping.  When root() does not return for some signature
\* the dict comprehension never finishes and build_city_canon hangs.
Resolve ==
    /\ pc = "resolve"
    /\ IF \A sg \in DOMAIN sig_to_disp : RootOf(merged, sg).ok
       THEN /\ mapping' =
                   LET rows == {i \in 1..Len(tmp) : tmp[i].basic # <<>>}
                   IN [raw \in {tmp[i].raw : i \in rows} |->
                          \* the last row with this raw value wins
                          LET r == CHOOSE i \in rows :
                                       /\ tmp[i].raw = raw
                                       /\ \A j \in rows : tmp[j].raw = raw => j <= i
                          IN final_disp(sig_to_disp, merged, tmp[r].sig)]
            /\ pc' = "mapped"
       ELSE /\ mapping' = mapping
            /\ pc' = "hung"
    /\ UNCHANGED <<series, tmp, groups, sig_to_disp, ordered, merged, k, out, pass,
                   emailVars, phoneVars, dateVars>>

\* clean_city after build_city_canon has returned.
clean_city_cell(m, c) ==
    LET v == Strip(maybe_demojibake(AsTypeStr(c)))
    IN IF v = <<>> THEN NA
       ELSE IF v \in DOMAIN m THEN StrCell(m[v]) ELSE StrCell(v)

Apply ==
    /\ pc = "mapped"
    /\ out' = [i \in 1..Len(series) |-> clean_city_cell(mapping, series[i])]
    /\ pc' = "done"
    /\ UNCHANGED <<series, tmp, groups, sig_to_disp, ordered, merged, k, mapping, pass,
                   emailVars, phoneVars, dateVars>>

\* clean_city applied to its own output.
Reapply ==
    /\ pc = "done"
    /\ pass = 1
    /\ series' = out
    /\ pass' = 2
    /\ pc' = "start"
    /\ tmp' = <<>> /\ groups' = <<>> /\ sig_to_disp' = <<>> /\ ordered' = <<>>
    /\ merged' = <<>> /\ k' = 0 /\ mapping' = <<>> /\ out' = <<>>
    /\ UNCHANGED <<emailVars, phoneVars, dateVars>>

NextCity ==
    \/ BuildGroups
    \/ MergeStep
    \/ MergeDone
    \/ Resolve
    \/ Apply
    \/ Reapply

SpecCity == InitCity /\ [][NextCity]_vars

(***************************************************************************)
(* Properties of the city engine                                           *)
(***************************************************************************)
\* The row numbers of the column that are clustered, and those of a cluster.
ClusteredRows == {i \in 1..Len(tmp) : tmp[i].basic # <<>>}
RowsOf(sg) == {i \in ClusteredRows : tmp[i].sig = sg}

\* The signatures reachable from sg along merge edges, sg included.
RECURSIVE ReachSet(_, _)
ReachSet(mrg, S) ==
    LET T == S \cup {mrg[sg] : sg \in S \cap DOMAIN mrg}
    IN IF T = S THEN S ELSE ReachSet(mrg, T)
OnCycle(mrg, sg) == sg \in DOMAIN mrg /\ sg \in ReachSet(mrg, {mrg[sg]})
Roots(mrg, sg) == {r \in ReachSet(mrg, {sg}) : r \notin DOMAIN mrg}

\* C1: after the merge loop has processed all clusters the merge edges
\* contain no cycle: from every signature, following edges reaches a
\* signature with no outgoing edge.
C1_MergeAcyclic ==
    pc = "resolve" =>
        \A sg \in DOMAIN sig_to_disp :
            /\ ~OnCycle(merged, sg)
            /\ Roots(merged, sg) # {}

\* C2: in the mapping build_city_canon returns, two raw values whose
\* signatures resolve to the same root map to the same string, and that
\* string is the representative of the root cluster.
C2_SameRootSameCanonical ==
    pc \in {"mapped", "done"} =>
        \A i \in ClusteredRows : \A j \in ClusteredRows :
            LET ri == Roots(merged, tmp[i].sig)
                rj == Roots(merged, tmp[j].sig)
            IN /\ Cardinality(ri) = 1
               /\ tmp[i].raw \in DOMAIN mapping
               /\ \A r \in ri : mapping[tmp[i].raw] = sig_to_disp[r]
               /\ ri = rj => mapping[tmp[i].raw] = mapping[tmp[j].raw]

\* A mapping was returned for a column with a chain of two merge edges, so
\* the root is reached transitively.
C2_Witness ==
    /\ pc = "mapped"
    /\ pass = 1
    /\ \E sg \in DOMAIN merged : merged[sg] \in DOMAIN merged

\* C3: clean_city is idempotent: applied to its own output it returns that
\* output unchanged, missing cells included.
C3_Idempotent ==
    (pass = 2 /\ pc = "done") => out = series

\* A cell that is empty, blank or missing.
IsBlankCell(c) == c.kind # "str" \/ Strip(c.v) = <<>>

\* C4: empty, blank and missing cells are missing in clean_city's output and
\* take part in no cluster.
C4_BlankIsMissing ==
    (pass = 1 /\ pc = "done") =>
        \A i \in 1..Len(series) :
            IsBlankCell(series[i]) => (out[i] = NA /\ i \notin ClusteredRows)

\* The similarity of candidate y to cluster c, at or above the cutoff.
Similar(y, c) == AtLeastCutoff(ratio(y, c))
Candidates(c) ==
    {y \in SigsOf(groups) : y # c /\ sizes(groups, y) >= sizes(groups, c) /\ Similar(y, c)}
BestCandidates(c) ==
    {y \in Candidates(c) :
        \A z \in Candidates(c) : ~ScoreLess(ratio(y, c), ratio(z, c))}
PosIn(ord, sg) == CHOOSE i \in 1..Len(ord) : ord[i] = sg

\* The part of C8 that does not depend on the tie-break: an edge exactly
\* when a candidate exists, to a candidate of highest similarity, never to a
\* cluster of lower frequency.
EdgesToBest ==
    \A c \in SigsOf(groups) :
        /\ c \in DOMAIN merged <=> Candidates(c) # {}
        /\ c \in DOMAIN merged =>
              /\ merged[c] \in BestCandidates(c)
              /\ sizes(groups, merged[c]) >= sizes(groups, c)

RawCount(sg, v) == Cardinality({i \in RowsOf(sg) : tmp[i].raw = v})
\* The first row of cluster sg that carries a most frequent raw value.
ModeRow(sg) ==
    CHOOSE i \in RowsOf(sg) :
        /\ \A j \in RowsOf(sg) :
              RawCount(sg, tmp[j].raw) <= RawCount(sg, tmp[i].raw)
        /\ \A j \in RowsOf(sg) :
              j < i => RawCount(sg, tmp[j].raw) < RawCount(sg, tmp[i].raw)
HasAsciiUpper(s) == \E i \in 1..Len(s) : s[i] \in AsciiUpper

\* C9: a cluster's representative is the most frequent trimmed raw value of
\* the cluster's own rows, the first in input order among equally frequent
\* ones, title-cased when it has no upper-case ASCII letter and verbatim
\* otherwise; merging does not change it.
C9_Representative ==
    pc \in {"merge", "resolve", "mapped", "hung", "done"} =>
        /\ DOMAIN sig_to_disp = {tmp[i].sig : i \in ClusteredRows}
        /\ \A sg \in DOMAIN sig_to_disp :
              LET top == tmp[ModeRow(sg)].raw
              IN sig_to_disp[sg] = IF HasAsciiUpper(top) THEN top ELSE Title(top)

\* After merging: a cluster whose two most frequent raw values tie, the
\* first of them without an upper-case letter, and at least one merge edge.
C9_Witness ==
    /\ pc = "resolve"
    /\ merged # <<>>
    /\ \E sg \in DOMAIN sig_to_disp :
          /\ ~HasAsciiUpper(tmp[ModeRow(sg)].raw)
          /\ \E j \in RowsOf(sg) :
                /\ tmp[j].raw # tmp[ModeRow(sg)].raw
                /\ RawCount(sg, tmp[j].raw)
                     = RawCount(sg, tmp[ModeRow(sg)].raw)

(***************************************************************************)
(* clean_email, one column                                                 *)
(***************************************************************************)
MaxEmailLen == 3

\* "a@b.co", " A @B.co", "a..b@b.co", "ab.co", ".a@b.co", "a@b.c" and a
\* missing cell.
EmailVocab ==
    { StrCell(<<"a","@","b",".","c","o">>),
      StrCell(<<" ","A"," ","@","B",".","c","o">>),
      StrCell(<<"a",".",".","b","@","b",".","c","o">>),
      StrCell(<<"a","b",".","c","o">>),
      StrCell(<<".","a","@","b",".","c","o">>),
      StrCell(<<"a","@","b",".","c">>),
      NaN }

EmailColumns == UNION {[1..n -> EmailVocab] : n \in 1..MaxEmailLen}

InitEmail ==
    /\ pc = "e_start"
    /\ emails \in EmailColumns
    /\ t = <<>> /\ eout = <<>>
    /\ CityIdle /\ PhoneIdle /\ DateIdle

\* re.sub(r"\s*@\s*", "@", s): the whitespace on both sides of every "@"
\* goes.
RECURSIVE SubAroundAt(_, _)
SubAroundAt(s, i) ==
    IF i > Len(s) THEN <<>>
    ELSE LET n == RunLen(s, i, Whitespace)
         IN IF i + n <= Len(s) /\ s[i + n] = "@"
            THEN <<"@">> \o SubAroundAt(s, i + n + 1 + RunLen(s, i + n + 1, Whitespace))
            ELSE <<s[i]>> \o SubAroundAt(s, i + 1)

\* Lines 95-97 on one cell.
email_normalize(c) ==
    Lower(DropIn(SubAroundAt(Strip(maybe_demojibake(AsTypeStr(c))), 1), {" "}))

LocalChars == AsciiLower \cup AsciiUpper \cup Digits \cup {".", "_", "%", "+", "-"}
LabelChars == AsciiLower \cup AsciiUpper \cup Digits \cup {"-"}
Letters == AsciiLower \cup AsciiUpper

\* str.split(sep): the pieces between the separators.
RECURSIVE Split(_, _)
Split(s, sep) ==
    IF ~Contains(s, sep) THEN <<s>>
    ELSE LET i == CHOOSE j \in 1..Len(s) : s[j] = sep /\ \A h \in 1..(j - 1) : s[h] # sep
         IN <<SubSeq(s, 1, i - 1)>> \o Split(SubSeq(s, i + 1, Len(s)), sep)

\* str.split("@", n=1): at most one split, at the first "@".
SplitAt1(s) ==
    IF ~Contains(s, "@") THEN <<s>>
    ELSE LET i == CHOOSE j \in 1..Len(s) : s[j] = "@" /\ \A h \in 1..(j - 1) : s[h] # "@"
         IN <<SubSeq(s, 1, i - 1), SubSeq(s, i + 1, Len(s))>>

AllIn(s, cls) == \A i \in 1..Len(s) : s[i] \in cls

\* EMAIL_RE.match(s)
EMAIL_RE(s) ==
    /\ ~HasSub(s, <<".", ".">>)
    /\ Len(SplitAt1(s)) = 2
    /\ LET local == SplitAt1(s)[1]
           labels == Split(SplitAt1(s)[2], ".")
       IN /\ local # <<>> /\ AllIn(local, LocalChars)
          /\ Len(labels) >= 2
          /\ \A i \in 1..Len(labels) : labels[i] # <<>> /\ AllIn(labels[i], LabelChars)
          /\ Len(labels[Len(labels)]) >= 2
          /\ AllIn(labels[Len(labels)], Letters)

\* One row of `bad`; a row without "@" has None in parts[1], its two tests
\* are NaN and count as False in the |.
email_bad(s) ==
    LET parts == SplitAt1(s)
    IN \/ StartsWith(parts[1], <<".">>) \/ EndsWith(parts[1], <<".">>)
       \/ /\ Len(parts) = 2
          /\ (StartsWith(parts[2], <<".">>) \/ EndsWith(parts[2], <<".">>))

\* The number of columns of parts = t.str.split("@", n=1, expand=True).
parts_columns(ts) ==
    IF \E i \in 1..Len(ts) : Contains(ts[i], "@") THEN 2 ELSE 1

\* Lines 95-97.
EmailNormalize ==
    /\ pc = "e_start"
    /\ t' = [i \in 1..Len(emails) |-> email_normalize(emails[i])]
    /\ pc' = "e_norm"
    /\ UNCHANGED <<emails, eout, cityVars, phoneVars, dateVars>>

\* Lines 98-105; parts[1] raises KeyError when parts has one column only.
EmailValidate ==
    /\ pc = "e_norm"
    /\ IF parts_columns(t) < 2
       THEN /\ pc' = "e_raised"
            /\ eout' = eout
       ELSE /\ pc' = "e_done"
            /\ eout' = [i \in 1..Len(t) |->
                           IF EMAIL_RE(t[i]) /\ ~email_bad(t[i]) THEN StrCell(t[i]) ELSE NA]
    /\ UNCHANGED <<emails, t, cityVars, phoneVars, dateVars>>

NextEmail ==
    \/ EmailNormalize
    \/ EmailValidate

SpecEmail == InitEmail /\ [][NextEmail]_vars

\* C5: clean_email does not raise; it returns a column of the same length
\* whose cells are normalized addresses or missing, and a cell without "@"
\* is missing whatever the other cells are.
C5_EmailNeverRaises ==
    pc \in {"e_raised", "e_done"} =>
        /\ pc = "e_done"
        /\ Len(eout) = Len(emails)
        /\ \A i \in 1..Len(emails) :
              /\ eout[i] = NA \/ eout[i] = StrCell(t[i])
              /\ ~Contains(AsTypeStr(emails[i]), "@") => eout[i] = NA

(***************************************************************************)
(* clean_phone, one record                                                 *)
(***************************************************************************)
DigitsOf(s) == KeepIn(s, Digits)

\* COUNTRY_DIAL
COUNTRY_DIAL ==
    [c \in {"Sweden", "Germany", "France", "Italy", "USA", "Japan", "Thailand",
            "Brazil", "Switzerland", "South Africa"} |->
        CASE c = "Sweden" -> <<"+","4","6">>
          [] c = "Germany" -> <<"+","4","9">>
          [] c = "France" -> <<"+","3","3">>
          [] c = "Italy" -> <<"+","3","9">>
          [] c = "USA" -> <<"+","1">>
          [] c = "Japan" -> <<"+","8","1">>
          [] c = "Thailand" -> <<"+","6","6">>
          [] c = "Brazil" -> <<"+","5","5">>
          [] c = "Switzerland" -> <<"+","4","1">>
          [] c = "South Africa" -> <<"+","2","7">>]

MaxBody == 22

\* "08-123 456 78 90 12 34 56" and "5551234567"
PhonePatterns ==
    { <<"0","8","-","1","2","3"," ","4","5","6"," ","7","8"," ","9","0"," ",
        "1","2"," ","3","4"," ","5","6">>,
      <<"5","5","5","1","2","3","4","5","6","7">> }

\* "", "+", "00", "(+46) ", "+1 " and "0046+"
PhonePrefixes ==
    { <<>>, <<"+">>, <<"0","0">>, <<"(","+","4","6",")"," ">>, <<"+","1"," ">>,
      <<"0","0","4","6","+">> }

PhoneCells ==
    {StrCell(pre \o SubSeq(pat, 1, Min(n, Len(pat)))) :
        pre \in PhonePrefixes, pat \in PhonePatterns, n \in 0..MaxBody} \cup {NaN}

\* str(cntry) of the country cell: three countries of the table, one that is
\* not in it, and a missing cell.
PhoneCountries == {"Sweden", "USA", "Germany", "Norway", "nan"}

InitPhone ==
    /\ pc = "p_start"
    /\ phone \in PhoneCells
    /\ country \in PhoneCountries
    /\ p = <<>> /\ cleaned = NA /\ pout = NA
    /\ CityIdle /\ EmailIdle /\ DateIdle

PhonePunct == Whitespace \cup {"(", ")", "-", ".", "/"}

\* Line 121: with more than one "+", "+" and the digits after the last "+".
collapse_plus(v) ==
    IF CountOf(v, "+") <= 1 THEN v
    ELSE <<"+">> \o DigitsOf(Split(v, "+")[Len(Split(v, "+"))])

\* Lines 115-121 on one cell.
phone_normalize(c) ==
    LET a == DropIn(Strip(maybe_demojibake(AsTypeStr(c))), PhonePunct)
        b == IF StartsWith(a, <<"0","0">>) THEN <<"+">> \o SubSeq(a, 3, Len(a)) ELSE a
    IN collapse_plus(KeepIn(b, Digits \cup {"+"}))

\* code.lstrip("+")
RECURSIVE LStripPlus(_)
LStripPlus(s) == IF s # <<>> /\ Head(s) = "+" THEN LStripPlus(Tail(s)) ELSE s

\* The prefix strip of fmt that drops len(cc) digits whether or not they are cc.
strip_dial_always(digits, cc) == SubSeq(digits, Len(cc) + 1, Len(digits))

\* Lines 132-135: rest.
strip_dial(digits, cc) ==
    IF StartsWith(digits, cc) THEN SubSeq(digits, Len(cc) + 1, Len(digits)) ELSE digits

\* The split with a lazy first group, (\d{1,3}?)(\d+).
lead_length_lazy(digits) == IF Len(digits) >= 2 THEN 1 ELSE 0

\* re.match(r"^(\d{1,3})(\d+)$", digits): the length of group 1, 0 when there
\* is no match.  The first group is greedy and leaves the second one digit.
lead_length(digits) ==
    IF Len(digits) < 2 THEN 0 ELSE Min(3, Len(digits) - 1)

Formatted(cc, rest) == StrCell(<<"(", "+">> \o cc \o <<")", " ">> \o rest)

\* fmt(raw, cntry)
fmt(raw, cntry) ==
    IF raw = <<>> THEN NA
    ELSE LET digits == DigitsOf(raw)
         IN IF cntry \in DOMAIN COUNTRY_DIAL
            THEN LET cc == LStripPlus(COUNTRY_DIAL[cntry])
                     rest == strip_dial(digits, cc)
                 IN IF rest = <<>> THEN NA ELSE Formatted(cc, rest)
            ELSE LET n == lead_length(digits)
                 IN IF n > 0
                    THEN Formatted(SubSeq(digits, 1, n), SubSeq(digits, n + 1, Len(digits)))
                    ELSE StrCell(raw)

\* Lines 146-147: between(7, 15) on the number of digits of cleaned.
MinDigits == 7
MaxDigits == 15
phone_ok(c) ==
    /\ c.kind = "str"
    /\ Len(DigitsOf(c.v)) >= MinDigits
    /\ Len(DigitsOf(c.v)) <= MaxDigits

PhoneNormalize ==
    /\ pc = "p_start"
    /\ p' = phone_normalize(phone)
    /\ pc' = "p_norm"
    /\ UNCHANGED <<phone, country, cleaned, pout, cityVars, emailVars, dateVars>>

PhoneFormat ==
    /\ pc = "p_norm"
    /\ cleaned' = fmt(p, country)
    /\ pc' = "p_fmt"
    /\ UNCHANGED <<phone, country, p, pout, cityVars, emailVars, dateVars>>

PhoneValidate ==
    /\ pc = "p_fmt"
    /\ pout' = IF phone_ok(cleaned) THEN cleaned ELSE NA
    /\ pc' = "p_done"
    /\ UNCHANGED <<phone, country, p, cleaned, cityVars, emailVars, dateVars>>

NextPhone ==
    \/ PhoneNormalize
    \/ PhoneFormat
    \/ PhoneValidate

SpecPhone == InitPhone /\ [][NextPhone]_vars

\* The record of the spec's example: Sweden, "08-123 456".
SwedishExample ==
    /\ country = "Sweden"
    /\ phone = StrCell(<<"0","8","-","1","2","3"," ","4","5","6">>)

\* C6 as stated: for Sweden and "08-123 456" clean_phone returns
\* "(+46) 8123456".
C6_SwedenDropsZero ==
    (pc = "p_done" /\ SwedishExample) =>
        pout = StrCell(<<"(","+","4","6",")"," ","8","1","2","3","4","5","6">>)

\* C6 amended: for Sweden and "08-123 456" clean_phone returns
\* "(+46) 08123456": the digits do not start with 46, so all of them follow
\* the dial code, the leading 0 included.
C6_SwedenKeepsZero ==
    (pc = "p_done" /\ SwedishExample) =>
        pout = StrCell(<<"(","+","4","6",")"," ","0","8","1","2","3","4","5","6">>)

\* clean_phone has returned a number for the example record.
C6_Witness == pc = "p_done" /\ SwedishExample /\ pout # NA

UnknownCountry == country \notin DOMAIN COUNTRY_DIAL

\* C10: with a country that is not in the table, every result that is not
\* missing is "(+ddd) rest" with a group of exactly three digits, the first
\* three of the digit string ("+1 5551234567" gives "(+155) 51234567"); the
\* raw string is only returned unformatted for fewer than two digits, and
\* then the result is missing.
C10_UnknownCountryThreeDigits ==
    (pc = "p_done" /\ UnknownCountry) =>
        /\ pout # NA =>
              /\ Len(DigitsOf(p)) >= 4
              /\ pout = Formatted(SubSeq(DigitsOf(p), 1, 3),
                                  SubSeq(DigitsOf(p), 4, Len(DigitsOf(p))))
        /\ cleaned = StrCell(p) => (Len(DigitsOf(p)) < 2 /\ pout = NA)
        /\ (cleaned # NA /\ cleaned # StrCell(p)) => Len(DigitsOf(p)) >= 2
        /\ phone = StrCell(<<"+","1"," ","5","5","5","1","2","3","4","5","6","7">>) =>
              pout = StrCell(<<"(","+","1","5","5",")"," ","5","1","2","3","4","5","6","7">>)

\* The example of C10 has been formatted, for a country outside the table.
C10_Witness ==
    /\ pc = "p_done"
    /\ UnknownCountry
    /\ phone = StrCell(<<"+","1"," ","5","5","5","1","2","3","4","5","6","7">>)
    /\ pout # NA

\* The unformatted branch has been taken and its result rejected.
C10_WitnessRaw ==
    pc = "p_done" /\ UnknownCountry /\ cleaned = StrCell(p) /\ pout = NA

(***************************************************************************)
(* clean_date_iso, one cell                                                *)
(***************************************************************************)
DigitSeq == <<"0","1","2","3","4","5","6","7","8","9">>
DigitChar(n) == DigitSeq[n + 1]
DigitValue(c) == (CHOOSE i \in 1..10 : DigitSeq[i] = c) - 1

\* "%02d" and "%04d"
Pad2(n) == <<DigitChar(n \div 10), DigitChar(n % 10)>>
Pad4(n) == Pad2(n \div 100) \o Pad2(n % 100)

RECURSIVE IntOf(_)
IntOf(s) == IF s = <<>> THEN 0 ELSE 10 * IntOf(SubSeq(s, 1, Len(s) - 1)) + DigitValue(s[Len(s)])

MaxField == 31

\* datetime.now().year
CurrentYear == 2026
\* Line 158: `dt.year > datetime.now().year + 50`
YearsAhead == 50

DateYears == {2020, CurrentYear + YearsAhead, CurrentYear + YearsAhead + 1}

\* The text "aa/bb/yyyy"
DateStr(a, b, y) == Pad2(a) \o <<"/">> \o Pad2(b) \o <<"/">> \o Pad4(y)

DateCells ==
    {StrCell(DateStr(a, b, y)) : a \in 1..MaxField, b \in 1..MaxField, y \in DateYears}
        \cup {NaN}

Timestamp(y, m, d) == [kind |-> "ts", v |-> <<y, m, d>>]
NaT == [kind |-> "NaT", v |-> <<>>]

IsLeap(y) == (y % 4 = 0 /\ y % 100 # 0) \/ y % 400 = 0
DaysIn(m, y) ==
    IF m = 2 THEN (IF IsLeap(y) THEN 29 ELSE 28)
    ELSE IF m \in {4, 6, 9, 11} THEN 30 ELSE 31
ValidDate(y, m, d) == m \in 1..12 /\ d >= 1 /\ d <= DaysIn(m, y)

\* pd.to_datetime(t, errors="coerce", dayfirst=dayfirst) on a text of three
\* numbers separated by "/": the first two are taken as (month, day), or as
\* (day, month) with dayfirst; when that is no date of the calendar the two
\* are taken the other way round; when neither is a date the result is NaT.
to_datetime(s, dayfirst) ==
    LET f == Split(s, "/")
    IN IF Len(f) # 3 \/ \E i \in 1..3 : f[i] = <<>> \/ ~AllIn(f[i], Digits) THEN NaT
       ELSE LET a == IntOf(f[1])
                b == IntOf(f[2])
                y == IntOf(f[3])
                m1 == IF dayfirst THEN b ELSE a
                d1 == IF dayfirst THEN a ELSE b
            IN IF ValidDate(y, m1, d1) THEN Timestamp(y, m1, d1)
               ELSE IF ValidDate(y, d1, m1) THEN Timestamp(y, d1, m1)
               ELSE NaT

\* Lines 153-154
date_text(c) == CollapseSpaces(Strip(maybe_demojibake(AsTypeStr(c))))

\* The order with the day-first interpretation first.
DayFirstOrder_day_first == <<TRUE, FALSE>>

\* Line 155: `for dayfirst in (False, True)`
DayFirstOrder == <<FALSE, TRUE>>

\* dt.strftime("%Y-%m-%d"); NaT gives NaN.
strftime(d) ==
    IF d.kind = "ts"
    THEN StrCell(Pad4(d.v[1]) \o <<"-">> \o Pad2(d.v[2]) \o <<"-">> \o Pad2(d.v[3]))
    ELSE NaN

InitDate ==
    /\ pc = "d_start"
    /\ x \in DateCells
    /\ dt = NaN /\ tried = <<>> /\ parsed = NaN /\ dout = NaN
    /\ CityIdle /\ EmailIdle /\ PhoneIdle

\* Line 152: a missing cell is NaT at once.
DateMissing ==
    /\ pc = "d_start"
    /\ x.kind # "str"
    /\ parsed' = NaT
    /\ pc' = "d_parsed"
    /\ UNCHANGED <<x, dt, tried, dout, cityVars, emailVars, phoneVars>>

\* One iteration of the loop of parse_one.
DateTry ==
    /\ pc = "d_start"
    /\ x.kind = "str"
    /\ Len(tried) < Len(DayFirstOrder)
    /\ LET dayfirst == DayFirstOrder[Len(tried) + 1]
           r == to_datetime(date_text(x), dayfirst)
       IN /\ dt' = r
          /\ tried' = Append(tried, dayfirst)
          /\ IF r # NaT
             THEN /\ parsed' = IF r.v[1] > CurrentYear + YearsAhead THEN NaT ELSE r
                  /\ pc' = "d_parsed"
             ELSE UNCHANGED <<parsed, pc>>
    /\ UNCHANGED <<x, dout, cityVars, emailVars, phoneVars>>

\* Line 160: neither interpretation parsed.
DateGiveUp ==
    /\ pc = "d_start"
    /\ x.kind = "str"
    /\ Len(tried) = Len(DayFirstOrder)
    /\ parsed' = NaT
    /\ pc' = "d_parsed"
    /\ UNCHANGED <<x, dt, tried, dout, cityVars, emailVars, phoneVars>>

\* Line 162
DateFormat ==
    /\ pc = "d_parsed"
    /\ dout' = strftime(parsed)
    /\ pc' = "d_done"
    /\ UNCHANGED <<x, dt, tried, parsed, cityVars, emailVars, phoneVars>>

NextDate ==
    \/ DateMissing
    \/ DateTry
    \/ DateGiveUp
    \/ DateFormat

SpecDate == InitDate /\ [][NextDate]_vars

\* The texts "aa/bb/yyyy" that are a date both ways, with different results.
Ambiguous(a, b) == a \in 1..12 /\ b \in 1..12 /\ a # b

\* C7 as stated: the day-first interpretation is tried first, and a text that
\* parses both ways gives the day-first date ("01/02/2020" gives 2020-02-01).
C7_DayFirstWins ==
    pc = "d_done" =>
        \A a \in 1..MaxField, b \in 1..MaxField :
            (Ambiguous(a, b) /\ x = StrCell(DateStr(a, b, 2020))) =>
                /\ tried[1] = TRUE
                /\ dout = StrCell(Pad4(2020) \o <<"-">> \o Pad2(b) \o <<"-">> \o Pad2(a))

\* C7 amended: the month-first interpretation is tried first and accepted
\* when it parses, so a text that parses both ways gives the month-first
\* date ("01/02/2020" gives 2020-01-02), or missing when its year is more
\* than 50 years ahead.
C7_MonthFirstWins ==
    pc = "d_done" =>
        \A a \in 1..MaxField, b \in 1..MaxField, y \in DateYears :
            (Ambiguous(a, b) /\ x = StrCell(DateStr(a, b, y))) =>
                /\ tried = <<FALSE>>
                /\ dout = IF y > CurrentYear + YearsAhead THEN NaN
                          ELSE StrCell(Pad4(y) \o <<"-">> \o Pad2(a) \o <<"-">> \o Pad2(b))

\* "01/02/2020" has been cleaned.
C7_Witness ==
    /\ pc = "d_done"
    /\ x = StrCell(<<"0","1","/","0","2","/","2","0","2","0">>)
    /\ dout = StrCell(<<"2","0","2","0","-","0","1","-","0","2">>)

====
